---------------------------- MODULE Spec2Model ----------------------------
(***************************************************************************)
(* Pan-Tompkins QRS detection and beat extraction                          *)
(* (src/preprocessing_with_beats/pan_tompkins.py).                         *)
(*                                                                         *)
(* Conventions.                                                            *)
(*   - Python sequences are TLA+ sequences; the Python index i is the TLA+ *)
(*     index i+1 (operator At).                                            *)
(*   - A float array is a record [num, den, nan]: sample i has the value   *)
(*     num[i+1]/den (den > 0), or is NaN when i \in nan.  All arithmetic   *)
(*     of the code is carried out exactly on these rationals.              *)
(*   - Signal and noise levels and thresholds are integers in units of     *)
(*     1/Scale, a power of two: the 0.125/0.875/0.25/0.5 updates of the    *)
(*     runs of Spec are exact; in the longer runs of SpecLag they are      *)
(*     rounded down to 1/Scale, which the RR tracker never reads.          *)
(***************************************************************************)
EXTENDS Integers, Sequences, FiniteSets, TLC

(***************************************************************************)
(* Bounds of the model                                                     *)
(***************************************************************************)
\* longest raw signal whose samples are enumerated freely
MaxLen == 7
\* length of the impulse signals that exercise the 16- and 32-sample taps
LongLen == 34

\* sample values of the enumerated raw signals
SampleVals == {-1, 0, 1}
\* sampling frequencies the cascade is run with (0: an invalid configuration)
Freqs == {0, 10}

(***************************************************************************)
(* Python helpers                                                          *)
(***************************************************************************)
\* Python's round() on the rational n/d, d > 0: round half to even
Round(n, d) ==
    LET q == n \div d
        r == n % d
    IN  IF 2 * r < d THEN q
        ELSE IF 2 * r > d THEN q + 1
        ELSE IF q % 2 = 0 THEN q ELSE q + 1

\* s[i] for a Python index 0 <= i < len(s)
At(s, i) == s[i + 1]

Min2(a, b) == IF a < b THEN a ELSE b
Max2(a, b) == IF a > b THEN a ELSE b

\* max() and min() of a non-empty sequence of integers
SeqMax(s) == CHOOSE v \in {s[k] : k \in DOMAIN s} : \A k \in DOMAIN s : s[k] <= v
SeqMin(s) == CHOOSE v \in {s[k] : k \in DOMAIN s} : \A k \in DOMAIN s : s[k] >= v

\* the value "not computed yet" of a stage output
None == [num |-> <<>>, den |-> 0, nan |-> {}]

Indices(s) == 0 .. (Len(s) - 1)

(***************************************************************************)
(* Pan_Tompkins_QRS: the filter cascade                                    *)
(***************************************************************************)
RECURSIVE LowPass(_, _)
\* the first n outputs of the low-pass loop, lines 40-53
LowPass(x, n) ==
    IF n = 0 THEN <<>>
    ELSE LET sig == LowPass(x, n - 1)
             index == n - 1
             v == At(x, index)
                  + (IF index >= 1 THEN 2 * At(sig, index - 1) ELSE 0)
                  - (IF index >= 2 THEN At(sig, index - 2) ELSE 0)
                  - (IF index >= 6 THEN 2 * At(x, index - 6) ELSE 0)
                  + (IF index >= 12 THEN At(x, index - 12) ELSE 0)
         IN  Append(sig, v)

RECURSIVE HighPass(_, _)
\* the first n outputs of the high-pass loop, lines 59-69
HighPass(sig, n) ==
    IF n = 0 THEN <<>>
    ELSE LET result == HighPass(sig, n - 1)
             index == n - 1
             v == -1 * At(sig, index)
                  - (IF index >= 1 THEN At(result, index - 1) ELSE 0)
                  + (IF index >= 16 THEN 32 * At(sig, index - 16) ELSE 0)
                  + (IF index >= 32 THEN At(sig, index - 32) ELSE 0)
         IN  Append(result, v)

\* the high-pass output before normalisation, lines 37-69
HighPassOf(x) == HighPass(LowPass(x, Len(x)), Len(x))

\* a plausible slip: the divisor is the largest sample, not the largest magnitude
NormDivisorMaxOnly(y) == SeqMax(y)

\* max_val = max(max(result), -min(result)), line 72 (y non-empty)
NormDivisor(y) == Max2(SeqMax(y), -SeqMin(y))

\* result/max_val, line 73: 0/0 is NaN in every sample when max_val = 0
Normalize(y, mv) ==
    IF mv = 0 THEN [num |-> y, den |-> 1, nan |-> Indices(y)]
    ELSE [num |-> y, den |-> mv, nan |-> {}]

\* one output sample of the derivative loop, lines 97-111, times 8/freq
DerivativeTerm(x, index) ==
    LET n == Len(x)
    IN  (IF index >= 1 THEN -2 * At(x, index - 1) ELSE 0)
        - (IF index >= 2 THEN At(x, index - 2) ELSE 0)
        + (IF index >= 2 /\ index <= n - 2 THEN 2 * At(x, index + 1) ELSE 0)
        + (IF index >= 2 /\ index <= n - 3 THEN At(x, index + 2) ELSE 0)

\* the samples the derivative of sample index reads, lines 99-109
DerivativeReads(n, index) ==
    (IF index >= 1 THEN {index - 1} ELSE {})
    \cup (IF index >= 2 THEN {index - 2} ELSE {})
    \cup (IF index >= 2 /\ index <= n - 2 THEN {index + 1} ELSE {})
    \cup (IF index >= 2 /\ index <= n - 3 THEN {index + 2} ELSE {})

\* derivative(), lines 93-113: (term * freq)/8, NaN where a NaN sample is read
Derivative(s, f) ==
    [num |-> [k \in 1 .. Len(s.num) |-> DerivativeTerm(s.num, k - 1) * f],
     den |-> 8 * s.den,
     nan |-> {i \in Indices(s.num) : DerivativeReads(Len(s.num), i) \cap s.nan # {}}]

\* squaring(), lines 132-138
Squaring(s) ==
    [num |-> [k \in 1 .. Len(s.num) |-> s.num[k] * s.num[k]],
     den |-> s.den * s.den,
     nan |-> s.nan]

\* win_size = round(0.150 * freq), line 161
WinSize(f) == Round(15 * f, 100)

RECURSIVE RunningSum(_, _, _)
\* the running sums of both integration loops, lines 165-173, times win_size
RunningSum(x, w, n) ==
    IF n = 0 THEN <<>>
    ELSE LET prev == RunningSum(x, w, n - 1)
             index == n - 1
             sum == (IF index >= 1 THEN At(prev, index - 1) ELSE 0)
                    + At(x, index)
                    - (IF index >= w THEN At(x, index - w) ELSE 0)
         IN  Append(prev, sum)

\* moving_window_integration() when it returns, lines 160-175 (w <= len):
\* a window of 0 samples divides 0 by 0 in every sample; a NaN, once added,
\* stays in the running sum
MovingWindowIntegration(s, w) ==
    IF w = 0 THEN [num |-> [k \in 1 .. Len(s.num) |-> 0], den |-> 1,
                   nan |-> Indices(s.num)]
    ELSE [num |-> RunningSum(s.num, w, Len(s.num)),
          den |-> s.den * w,
          nan |-> {i \in Indices(s.num) : \E j \in s.nan : j <= i}]

(***************************************************************************)
(* R_peak_extractor.approx_peak                                            *)
(***************************************************************************)
RECURSIVE SumRange(_, _, _)
\* x[a] + ... + x[b] for Python indices a..b
SumRange(x, a, b) == IF a > b THEN 0 ELSE At(x, a) + SumRange(x, a + 1, b)

\* width of the smoothing kernel, line 243
KernelWidth == 25

\* 25 * slopes[i]: fftconvolve(m_win, ones(25)/25, mode='same'), lines 242-243
Slope(x, i) ==
    SumRange(x, Max2(0, i - (KernelWidth - 1) \div 2),
                Min2(Len(x) - 1, i + (KernelWidth - 1) \div 2))

\* first index the candidate scan looks at: round(0.5*samp_freq) + 1, line 246
ScanStart(f) == Round(5 * f, 10) + 1

RECURSIVE ScanPeaks(_, _, _)
\* the candidate scan from index i on, lines 246-248
ScanPeaks(x, i, last) ==
    IF i > last THEN <<>>
    ELSE (IF Slope(x, i) > Slope(x, i - 1) /\ Slope(x, i + 1) < Slope(x, i)
          THEN <<i>> ELSE <<>>) \o ScanPeaks(x, i + 1, last)

\* approx_peak(), lines 242-248: a NaN anywhere makes every slope NaN, and
\* every comparison with NaN is false
ApproxPeak(m, f) ==
    IF m.nan # {} THEN <<>>
    ELSE ScanPeaks(m.num, ScanStart(f), Len(m.num) - 2)


(***************************************************************************)
(* R_peak_extractor.ecg_searchback                                         *)
(***************************************************************************)
\* s[i] for a Python index -len(s) <= i < len(s): a negative index counts
\* from the end
PyAt(s, i) == IF i >= 0 THEN s[i + 1] ELSE s[Len(s) + i + 1]

PyIndexOk(s, i) == -Len(s) <= i /\ i < Len(s)

RECURSIVE SortedSeq(_)
\* the elements of a finite set of integers in ascending order
SortedSeq(S) ==
    IF S = {} THEN <<>>
    ELSE LET m == CHOOSE x \in S : \A y \in S : x <= y
         IN  <<m>> \o SortedSeq(S \ {m})

\* np.unique(np.array(r_locs).astype(int)), line 427
Unique(locs) == SortedSeq({locs[k] : k \in DOMAIN locs})

\* win_200ms = round(0.2 * samp_freq), line 430
Win200ms(f) == Round(2 * f, 10)

\* coord = np.arange(r_val - win_200ms, min(len(signal), r_val + win_200ms + 1)),
\* lines 433-434, as the set of its positions
EcgCoord(sig, r_val, f) ==
    (r_val - Win200ms(f)) .. (Min2(Len(sig), r_val + Win200ms(f) + 1) - 1)

\* lines 437-443: the first position of coord holding max(signal[coord]);
\* <<>> stands for x_max = None
EcgXMax(sig, r_val, f) ==
    LET coord == EcgCoord(sig, r_val, f)
    IN  IF coord = {} THEN <<>>
        ELSE LET top == CHOOSE v \in {PyAt(sig, p) : p \in coord} :
                            \A p \in coord : PyAt(sig, p) <= v
             IN  <<CHOOSE p \in coord :
                     /\ PyAt(sig, p) = top
                     /\ \A q \in coord : PyAt(sig, q) = top => p <= q>>

RECURSIVE EcgResult(_, _, _, _)
\* the loop of lines 432-447 over the unique locations from the k-th on
EcgResult(sig, locs, k, f) ==
    IF k > Len(locs) THEN <<>>
    ELSE EcgXMax(sig, locs[k], f) \o EcgResult(sig, locs, k + 1, f)

\* signal[pos] and signal[coord] raise IndexError for a position outside
\* [-len, len)
EcgIndexError(sig, locs, f) ==
    \E k \in DOMAIN locs : \E p \in EcgCoord(sig, locs[k], f) : ~PyIndexOk(sig, p)


(***************************************************************************)
(* R_peak_extractor: levels, thresholds, slices                            *)
(***************************************************************************)
\* levels and thresholds are kept in units of 1/Scale
Scale == 2 ^ 28

\* the value of sample i (a Python index >= 0) of a float array, in 1/Scale;
\* exact when the array's denominator divides Scale
Val(s, i) == s.num[i + 1] * (Scale \div s.den)

\* 0.125 * new + 0.875 * old
Ema8(new, old) == old + (new - old) \div 8

\* 0.25 * new + 0.75 * old
Ema4(new, old) == old + (new - old) \div 4

\* NPK + 0.25 * (SPK - NPK), lines 308, 333, 415, 416
Threshold1(spk, npk) == npk + (spk - npk) \div 4

\* 0.5 * Threshold_1, lines 309, 335, 417, 418
Threshold2(t1) == t1 \div 2

\* Python's clamping of a slice bound into 0..n
SliceBound(i, n) == IF i < 0 THEN Max2(0, n + i) ELSE Min2(i, n)

\* the Python indices of s[a:b]
SliceIndices(s, a, b) ==
    SliceBound(a, Len(s)) .. (SliceBound(b, Len(s)) - 1)

\* s[a:b]
PySlice(s, a, b) == SubSeq(s, SliceBound(a, Len(s)) + 1, SliceBound(b, Len(s)))

\* self.win_150ms = round(0.15 * samp_freq), line 229
Win150ms(f) == Round(15 * f, 100)

\* lines 292-302 and 315-325: the first position of the window win whose
\* value exceeds the threshold and equals the largest such value; <<>> stands
\* for None.  The values of win are numerators over den, which divides Scale.
FirstMaxAbove(win, den, threshold) ==
    LET coord == {k \in DOMAIN win : win[k] * (Scale \div den) > threshold}
    IN  IF coord = {} THEN <<>>
        ELSE <<(CHOOSE k \in coord :
                   /\ \A j \in coord : win[j] <= win[k]
                   /\ \A j \in coord : win[j] = win[k] => k <= j) - 1>>

(***************************************************************************)
(* R_peak_extractor.adjust_rr_interval                                     *)
(* RR intervals are kept in samples (seconds times samp_freq); averages    *)
(* and limits in units of 1/RRUnit sample, which makes every mean of up to *)
(* 8 intervals and every limit an integer.                                 *)
(***************************************************************************)
RRUnit == 840 * 100

RECURSIVE SeqSum(_)
SeqSum(x) == IF x = <<>> THEN 0 ELSE Head(x) + SeqSum(Tail(x))

\* np.mean of a non-empty list of intervals
Mean(x) == (SeqSum(x) * RRUnit) \div Len(x)

\* a plausible slip: the slice ends one candidate later and reads candidate
\* ind + 1 when there is one
IntervalsLookAhead(pk, i) ==
    LET lo == Max2(0, i - 8)
        hi == Min2(i + 1, Len(pk) - 1)
    IN  [k \in 1 .. (hi - lo) |-> pk[lo + k + 1] - pk[lo + k]]

\* np.diff(self.peaks[max(0, ind - 8): ind + 1]) in samples, line 257
Intervals(pk, i) ==
    LET lo == Max2(0, i - 8)
    IN  [k \in 1 .. (i - lo) |-> pk[lo + k + 1] - pk[lo + k]]

RECURSIVE FillRR2DropNewest(_, _, _, _, _, _)
\* a plausible slip: a full list drops the entry just appended, not RR2[0]
FillRR2DropNewest(rr1, rr2, avg2, low, high, i) ==
    IF i >= 8 THEN [RR2 |-> rr2, RR_Average2 |-> avg2]
    ELSE IF low < At(rr1, i) * RRUnit /\ At(rr1, i) * RRUnit < high
         THEN LET app == Append(rr2, At(rr1, i))
              IN  IF Len(app) > 8
                  THEN FillRR2DropNewest(rr1, rr2, Mean(rr2), low, high, i + 1)
                  ELSE FillRR2DropNewest(rr1, app, avg2, low, high, i + 1)
         ELSE FillRR2DropNewest(rr1, rr2, avg2, low, high, i + 1)

RECURSIVE FillRR2(_, _, _, _, _, _)
\* the loop of lines 265-271 from position i on: rr2 and RR_Average2
FillRR2(rr1, rr2, avg2, low, high, i) ==
    IF i >= 8 THEN [RR2 |-> rr2, RR_Average2 |-> avg2]
    ELSE IF low < At(rr1, i) * RRUnit /\ At(rr1, i) * RRUnit < high
         THEN LET app == Append(rr2, At(rr1, i))
              IN  IF Len(app) > 8
                  THEN FillRR2(rr1, Tail(app), Mean(Tail(app)), low, high, i + 1)
                  ELSE FillRR2(rr1, app, avg2, low, high, i + 1)
         ELSE FillRR2(rr1, rr2, avg2, low, high, i + 1)

\* a plausible slip: the limits follow a list of seven entries as well
LimitsDueFromSeven(rr2, i) == Len(rr2) >= 7 \/ i < 8

\* a plausible slip: the limits wait for a full list, also when ind < 8
LimitsDueFullOnly(rr2, i) == Len(rr2) > 7

\* the test of line 274: the limits are recomputed
LimitsDue(rr2, i) == Len(rr2) > 7 \/ i < 8

\* adjust_rr_interval(ind), lines 250-277, on the tracker state st
AdjustRRInterval(st, pk, i) ==
    LET rr1 == Intervals(pk, i)
        avg1 == Mean(rr1)
        fill == IF i >= 8
                THEN FillRR2(rr1, st.RR2, avg1, st.RR_Low_Limit,
                             st.RR_High_Limit, 0)
                ELSE [RR2 |-> st.RR2, RR_Average2 |-> avg1]
        update == LimitsDue(fill.RR2, i)
    IN  [RR1 |-> rr1,
         RR2 |-> fill.RR2,
         RR_Average1 |-> avg1,
         RR_Low_Limit |-> IF update THEN 92 * (fill.RR_Average2 \div 100)
                          ELSE st.RR_Low_Limit,
         RR_High_Limit |-> IF update THEN 116 * (fill.RR_Average2 \div 100)
                           ELSE st.RR_High_Limit,
         RR_Missed_Limit |-> IF update THEN 166 * (fill.RR_Average2 \div 100)
                             ELSE st.RR_Missed_Limit]

(***************************************************************************)
(* State                                                                   *)
(***************************************************************************)
VARIABLES
    freq,             \* sampling frequency (Pan_Tompkins_QRS.freq, samp_freq)
    signal,           \* the raw lead signal
    pc,               \* the method about to run; "returned", "raised" at the end
    error,            \* the exception that ended the run, "" when none
    max_val,          \* band_pass_filter's normalisation divisor, -1 before it
    bpass, der, sqr, mwin,      \* qrs_dict of solve()
    m_win, b_pass,    \* R_peak_extractor's copies of qrs_dict
    peaks, probable_peaks, r_locs, result,
    RR1, RR2, RR_Average1, RR_Low_Limit, RR_High_Limit, RR_Missed_Limit,
    SPKI, NPKI, SPKF, NPKF,
    Threshold_I1, Threshold_I2, Threshold_F1, Threshold_F2,
    T_wave,
    ind,              \* position of the candidate loop of find_r_peaks
    n_seconds4beat,   \* extract_beats: seconds per beat segment
    curr_beats,       \* extract_beats: the segments of the lead so far
    r_peak_pos,       \* extract_beats: position of the loop over result
    run2              \* the RR tracker of a second run on another candidate list

cascadeVars == <<max_val, bpass, der, sqr, mwin>>
rrVars == <<RR1, RR2, RR_Average1, RR_Low_Limit, RR_High_Limit, RR_Missed_Limit>>
levelVars == <<SPKI, NPKI, SPKF, NPKF>>
thresholdVars == <<Threshold_I1, Threshold_I2, Threshold_F1, Threshold_F2>>
extractorVars == <<m_win, b_pass, peaks, probable_peaks, r_locs, result,
                   rrVars, levelVars, thresholdVars, T_wave, ind>>
beatVars == <<n_seconds4beat, curr_beats, r_peak_pos>>
vars == <<freq, signal, pc, error, cascadeVars, extractorVars, beatVars, run2>>

\* extract_beats before its loop over the R peaks, lines 499-503 and 525; no
\* second run
OneRun(n) ==
    /\ n_seconds4beat = n /\ curr_beats = <<>> /\ r_peak_pos = 0
    /\ run2 = None

\* R_peak_extractor.__init__, lines 219-234, for the given qrs_dict
Constructed(mw, bp) ==
    /\ m_win = mw /\ b_pass = bp
    /\ peaks = <<>> /\ probable_peaks = <<>> /\ r_locs = <<>> /\ result = <<>>
    /\ RR1 = <<>> /\ RR2 = <<>>
    /\ RR_Average1 = 0 /\ RR_Low_Limit = 0 /\ RR_High_Limit = 0
    /\ RR_Missed_Limit = 0
    /\ SPKI = 0 /\ NPKI = 0 /\ SPKF = 0 /\ NPKF = 0
    /\ Threshold_I1 = 0 /\ Threshold_I2 = 0
    /\ Threshold_F1 = 0 /\ Threshold_F2 = 0
    /\ T_wave = FALSE
    /\ ind = 0

(***************************************************************************)
(* Pan_Tompkins_QRS.solve, stage by stage                                  *)
(***************************************************************************)
Raise(e) == pc' = "raised" /\ error' = e

\* band_pass_filter(), lines 13-75: max() of an empty sequence raises ValueError
BandPassFilter ==
    /\ pc = "band_pass_filter"
    /\ IF Len(signal) = 0
       THEN /\ Raise("ValueError")
            /\ UNCHANGED cascadeVars
       ELSE /\ max_val' = NormDivisor(HighPassOf(signal))
            /\ bpass' = Normalize(HighPassOf(signal), max_val')
            /\ pc' = "derivative"
            /\ UNCHANGED <<error, der, sqr, mwin>>
    /\ UNCHANGED <<beatVars, run2>>
    /\ UNCHANGED <<freq, signal, extractorVars>>

\* derivative(), lines 77-113
DerivativeStage ==
    /\ pc = "derivative"
    /\ der' = Derivative(bpass, freq)
    /\ pc' = "squaring"
    /\ UNCHANGED <<beatVars, run2>>
    /\ UNCHANGED <<freq, signal, error, max_val, bpass, sqr, mwin, extractorVars>>

\* squaring(), lines 115-138
SquaringStage ==
    /\ pc = "squaring"
    /\ sqr' = Squaring(der)
    /\ pc' = "moving_window_integration"
    /\ UNCHANGED <<beatVars, run2>>
    /\ UNCHANGED <<freq, signal, error, max_val, bpass, der, mwin, extractorVars>>

\* moving_window_integration(), lines 140-175: signal[j] in the first loop
\* raises IndexError when the signal is shorter than the window
MovingWindowIntegrationStage ==
    /\ pc = "moving_window_integration"
    /\ IF Len(sqr.num) < WinSize(freq)
       THEN /\ Raise("IndexError")
            /\ UNCHANGED mwin
       ELSE /\ mwin' = MovingWindowIntegration(sqr, WinSize(freq))
            /\ pc' = "R_peak_extractor"
            /\ UNCHANGED error
    /\ UNCHANGED <<beatVars, run2>>
    /\ UNCHANGED <<freq, signal, max_val, bpass, der, sqr, extractorVars>>

\* R_peak_extractor(signal, freq, qrs_dict), lines 211-234 and 510
Construct ==
    /\ pc = "R_peak_extractor"
    /\ m_win' = mwin /\ b_pass' = bpass
    /\ pc' = "approx_peak"
    /\ UNCHANGED <<beatVars, run2>>
    /\ UNCHANGED <<freq, signal, error, cascadeVars, peaks, probable_peaks,
                   r_locs, result, rrVars, levelVars, thresholdVars, T_wave, ind>>

(***************************************************************************)
(* R_peak_extractor.find_r_peaks                                           *)
(***************************************************************************)
\* approx_peak() and the loop header, lines 455-458
ApproxPeakStep ==
    /\ pc = "approx_peak"
    /\ peaks' = ApproxPeak(m_win, freq)
    /\ ind' = 0
    /\ pc' = IF peaks' = <<>> THEN "ecg_searchback" ELSE "window"
    /\ UNCHANGED <<beatVars, run2>>
    /\ UNCHANGED <<freq, signal, error, cascadeVars, m_win, b_pass,
                   probable_peaks, r_locs, result, rrVars, levelVars,
                   thresholdVars, T_wave>>

\* ecg_searchback() and the return, lines 421-447 and 496-498
EcgSearchback ==
    /\ pc = "ecg_searchback"
    /\ r_locs' = Unique(r_locs)
    /\ IF EcgIndexError(signal, r_locs', freq)
       THEN /\ Raise("IndexError")
            /\ UNCHANGED result
       ELSE /\ result' = EcgResult(signal, r_locs', 1, freq)
            /\ pc' = "returned"
            /\ UNCHANGED error
    /\ UNCHANGED <<beatVars, run2>>
    /\ UNCHANGED <<freq, signal, cascadeVars, m_win, b_pass, peaks,
                   probable_peaks, rrVars, levelVars, thresholdVars, T_wave, ind>>

(***************************************************************************)
(* The candidate loop of find_r_peaks, lines 458-493                       *)
(***************************************************************************)
\* peak_val = self.peaks[ind], line 461
PeakVal == peaks[ind + 1]

\* win_300ms, lines 462-463, as the set of its positions
Win300ms ==
    Max2(0, PeakVal - Win150ms(freq)) ..
        (Min2(PeakVal + Win150ms(freq), Len(b_pass.num) - 1) - 1)

\* max_val = max(self.b_pass[win_300ms], default=0), line 464 (numerator)
WindowMax ==
    IF Win300ms = {} THEN 0
    ELSE CHOOSE v \in {At(b_pass.num, i) : i \in Win300ms} :
             \A i \in Win300ms : At(b_pass.num, i) <= v

\* np.asarray(self.b_pass == max_val).nonzero()[0][0], lines 468-469: the
\* first index of the whole bandpass signal holding the value max_val
FirstIndexOf(x, v) ==
    CHOOSE i \in Indices(x) : At(x, i) = v /\ \A j \in Indices(x) : At(x, j) = v => i <= j

\* lines 461-471 and 488: the probable peak of the candidate, and the branch
ProbablePeak ==
    /\ pc = "window"
    /\ probable_peaks' =
          IF WindowMax # 0
          THEN Append(probable_peaks, FirstIndexOf(b_pass.num, WindowMax))
          ELSE probable_peaks
    /\ pc' = IF ind < Len(probable_peaks') /\ ind # 0
             THEN "adjust_rr_interval" ELSE "adjust_thresholds"
    /\ UNCHANGED <<beatVars, run2>>
    /\ UNCHANGED <<freq, signal, error, cascadeVars, m_win, b_pass, peaks,
                   r_locs, result, rrVars, levelVars, thresholdVars, T_wave, ind>>

\* the RR tracker's fields
RRState ==
    [RR1 |-> RR1, RR2 |-> RR2, RR_Average1 |-> RR_Average1,
     RR_Low_Limit |-> RR_Low_Limit, RR_High_Limit |-> RR_High_Limit,
     RR_Missed_Limit |-> RR_Missed_Limit]

\* the test of line 476 on a tracker state
Irregular(st) ==
    st.RR_Average1 < st.RR_Low_Limit \/ st.RR_Average1 > st.RR_Missed_Limit

\* lines 472-478: adjust_rr_interval(ind), then the halving of Threshold_I1
\* and Threshold_F1 on an irregular rhythm
AdjustRR ==
    /\ pc = "adjust_rr_interval"
    /\ LET st == AdjustRRInterval(RRState, peaks, ind)
       IN  /\ RR1' = st.RR1 /\ RR2' = st.RR2
           /\ RR_Average1' = st.RR_Average1
           /\ RR_Low_Limit' = st.RR_Low_Limit
           /\ RR_High_Limit' = st.RR_High_Limit
           /\ RR_Missed_Limit' = st.RR_Missed_Limit
           /\ Threshold_I1' = IF Irregular(st) THEN Threshold_I1 \div 2
                              ELSE Threshold_I1
           /\ Threshold_F1' = IF Irregular(st) THEN Threshold_F1 \div 2
                              ELSE Threshold_F1
    /\ pc' = "searchback"
    /\ UNCHANGED <<beatVars, run2>>
    /\ UNCHANGED <<freq, signal, error, cascadeVars, m_win, b_pass, peaks,
                   probable_peaks, r_locs, result, levelVars, Threshold_I2,
                   Threshold_F2, T_wave, ind>>

\* RRn = self.RR1[-1], line 480, in samples; round(RRn*samp_freq) is the same
RRn == RR1[Len(RR1)]

\* a plausible slip: the search is made whatever RRn is
SbXMaxAlways ==
    FirstMaxAbove(PySlice(m_win.num, PeakVal - RRn + 1, PeakVal + 1),
                  m_win.den, Threshold_I1)

\* searchback, lines 288-302: x_max, <<>> when the search is not made or
\* finds nothing
SbXMax ==
    IF RRn * RRUnit > RR_Missed_Limit
    THEN FirstMaxAbove(PySlice(m_win.num, PeakVal - RRn + 1, PeakVal + 1),
                       m_win.den, Threshold_I1)
    ELSE <<>>

\* searchback, lines 312-325: r_max, with Threshold_F1 as it is on entry
SbRMax ==
    IF SbXMax = <<>> THEN <<>>
    ELSE FirstMaxAbove(PySlice(b_pass.num, SbXMax[1] - Win150ms(freq),
                               Min2(Len(b_pass.num) - 1, SbXMax[1])),
                       b_pass.den, Threshold_F1)

\* searchback, lines 328-330
SbAccepts == SbRMax # <<>> /\ Val(b_pass, SbRMax[1]) > Threshold_F2

\* searchback(peak_val, RRn, round(RRn*samp_freq)), lines 279-338
Searchback ==
    /\ pc = "searchback"
    /\ IF SbXMax # <<>>
       THEN /\ SPKI' = Ema4(Val(m_win, SbXMax[1]), SPKI)
            /\ Threshold_I1' = Threshold1(SPKI', NPKI)
            /\ Threshold_I2' = Threshold2(Threshold_I1')
       ELSE UNCHANGED <<SPKI, Threshold_I1, Threshold_I2>>
    /\ IF SbAccepts
       THEN /\ SPKF' = Ema4(Val(b_pass, SbRMax[1]), SPKF)
            /\ Threshold_F1' = Threshold1(SPKF', NPKF)
            /\ Threshold_F2' = Threshold2(Threshold_F1')
            /\ r_locs' = Append(r_locs, SbRMax[1])
       ELSE UNCHANGED <<SPKF, Threshold_F1, Threshold_F2, r_locs>>
    /\ pc' = "find_t_wave"
    /\ UNCHANGED <<beatVars, run2>>
    /\ UNCHANGED <<freq, signal, error, cascadeVars, m_win, b_pass, peaks,
                   probable_peaks, result, rrVars, NPKI, NPKF, T_wave, ind>>

\* max(np.diff(self.m_win[p - round(win_150ms/2): p + 1])), lines 352-355, as
\* the set of the differences (numerators); empty when the slice has fewer
\* than two samples, and max() of it then raises ValueError
SlopeDiffs(p) ==
    LET w == PySlice(m_win.num, p - Round(Win150ms(freq), 2), p + 1)
    IN  {w[k + 1] - w[k] : k \in 1 .. (Len(w) - 1)}

SetMax(S) == CHOOSE v \in S : \A u \in S : u <= v

\* line 350
ShortRR == ind > 0 /\ 20 * freq < 100 * RRn /\ 100 * RRn < 36 * freq

\* lines 350-358: the candidate is flagged as a T wave
IsTWave ==
    /\ ShortRR
    /\ 2 * SetMax(SlopeDiffs(PeakVal)) < SetMax(SlopeDiffs(peaks[ind]))

\* lines 366 and 395: self.probable_peaks[ind] > self.Threshold_F1, which
\* compares the sample index with the threshold
ProbablePeakAccepted(i) == probable_peaks[i + 1] > Threshold_F1 \div Scale

\* a plausible slip: the flag is tested as it was when the call began
NotTWaveAtEntry == ~T_wave

\* line 360: not self.T_wave, after lines 350-358
NotTWave == ~T_wave'

\* find_t_wave(peak_val, RRn, ind, ind-1), lines 340-382
FindTWave ==
    /\ pc = "find_t_wave"
    /\ IF Val(m_win, PeakVal) >= Threshold_I1
       THEN IF ShortRR /\ (SlopeDiffs(PeakVal) = {} \/ SlopeDiffs(peaks[ind]) = {})
            THEN /\ Raise("ValueError")
                 /\ UNCHANGED <<levelVars, r_locs, T_wave>>
            ELSE /\ T_wave' = (T_wave \/ IsTWave)
                 /\ NPKI' = IF IsTWave THEN Ema8(Val(m_win, PeakVal), NPKI)
                            ELSE NPKI
                 /\ IF NotTWave
                    THEN /\ SPKI' = Ema8(Val(m_win, PeakVal), SPKI)
                         /\ IF ProbablePeakAccepted(ind)
                            THEN /\ SPKF' = Ema8(Val(b_pass, ind), SPKF)
                                 /\ r_locs' = Append(r_locs, probable_peaks[ind + 1])
                                 /\ UNCHANGED NPKF
                            ELSE /\ NPKF' = Ema8(Val(b_pass, ind), NPKF)
                                 /\ UNCHANGED <<SPKF, r_locs>>
                    ELSE UNCHANGED <<SPKI, SPKF, NPKF, r_locs>>
                 /\ pc' = "update_thresholds"
                 /\ UNCHANGED error
       ELSE /\ IF \/ Val(m_win, PeakVal) < Threshold_I1
                  \/ (Threshold_I1 < Val(m_win, PeakVal)
                         /\ Val(m_win, PeakVal) < Threshold_I2)
               THEN /\ NPKI' = Ema8(Val(m_win, PeakVal), NPKI)
                    /\ NPKF' = Ema8(Val(b_pass, ind), NPKF)
               ELSE UNCHANGED <<NPKI, NPKF>>
            /\ pc' = "update_thresholds"
            /\ UNCHANGED <<error, SPKI, SPKF, r_locs, T_wave>>
    /\ UNCHANGED <<beatVars, run2>>
    /\ UNCHANGED <<freq, signal, cascadeVars, m_win, b_pass, peaks,
                   probable_peaks, result, rrVars, thresholdVars, ind>>

\* adjust_thresholds(peak_val, ind), lines 384-408: self.probable_peaks[ind]
\* raises IndexError when the candidate has no entry
AdjustThresholds ==
    /\ pc = "adjust_thresholds"
    /\ IF Val(m_win, PeakVal) >= Threshold_I1
       THEN /\ SPKI' = Ema8(Val(m_win, PeakVal), SPKI)
            /\ IF ind >= Len(probable_peaks)
               THEN /\ Raise("IndexError")
                    /\ UNCHANGED <<SPKF, NPKF, r_locs>>
               ELSE /\ IF ProbablePeakAccepted(ind)
                       THEN /\ SPKF' = Ema8(Val(b_pass, ind), SPKF)
                            /\ r_locs' = Append(r_locs, probable_peaks[ind + 1])
                            /\ UNCHANGED NPKF
                       ELSE /\ NPKF' = Ema8(Val(b_pass, ind), NPKF)
                            /\ UNCHANGED <<SPKF, r_locs>>
                    /\ pc' = "update_thresholds"
                    /\ UNCHANGED error
            /\ UNCHANGED NPKI
       ELSE /\ IF \/ Val(m_win, PeakVal) < Threshold_I2
                  \/ (Threshold_I2 < Val(m_win, PeakVal)
                         /\ Val(m_win, PeakVal) < Threshold_I1)
               THEN /\ NPKI' = Ema8(Val(m_win, PeakVal), NPKI)
                    /\ NPKF' = Ema8(Val(b_pass, ind), NPKF)
               ELSE UNCHANGED <<NPKI, NPKF>>
            /\ pc' = "update_thresholds"
            /\ UNCHANGED <<error, SPKI, SPKF, r_locs>>
    /\ UNCHANGED <<beatVars, run2>>
    /\ UNCHANGED <<freq, signal, cascadeVars, m_win, b_pass, peaks,
                   probable_peaks, result, rrVars, thresholdVars, T_wave, ind>>

\* update_thresholds() and the loop's next iteration, lines 410-419 and 458
UpdateThresholds ==
    /\ pc = "update_thresholds"
    /\ Threshold_I1' = Threshold1(SPKI, NPKI)
    /\ Threshold_F1' = Threshold1(SPKF, NPKF)
    /\ Threshold_I2' = Threshold2(Threshold_I1')
    /\ Threshold_F2' = Threshold2(Threshold_F1')
    /\ T_wave' = FALSE
    /\ ind' = ind + 1
    /\ pc' = IF ind' < Len(peaks) THEN "window" ELSE "ecg_searchback"
    /\ UNCHANGED <<beatVars, run2>>
    /\ UNCHANGED <<freq, signal, error, cascadeVars, m_win, b_pass, peaks,
                   probable_peaks, r_locs, result, rrVars, levelVars>>

(***************************************************************************)
(* The cascade on raw signals, followed by the detection of a signal       *)
(* without candidates                                                      *)
(***************************************************************************)
\* all raw signals of a length with the sample values of SampleVals
SignalsOfLen(n) == [1 .. n -> SampleVals]

\* a single pulse of amplitude a at sample k in a signal of LongLen samples
Impulse(k, a) == [j \in 1 .. LongLen |-> IF j = k + 1 THEN a ELSE 0]

RawSignals ==
    UNION {SignalsOfLen(n) : n \in 0 .. MaxLen}
    \cup {Impulse(k, a) : k \in 0 .. 1, a \in {-1, 1}}

InitFilter ==
    /\ freq \in Freqs
    /\ signal \in RawSignals
    /\ pc = "band_pass_filter"
    /\ error = ""
    /\ OneRun(1)
    /\ max_val = -1
    /\ bpass = None /\ der = None /\ sqr = None /\ mwin = None
    /\ Constructed(None, None)

NextFilter ==
    \/ BandPassFilter
    \/ DerivativeStage
    \/ SquaringStage
    \/ MovingWindowIntegrationStage
    \/ Construct
    \/ ApproxPeakStep
    \/ EcgSearchback

SpecFilter == InitFilter /\ [][NextFilter]_vars


(***************************************************************************)
(* The detector on constructed inputs: R_peak_extractor(signal, freq,      *)
(* qrs_dict) followed by find_r_peaks.  The integrated signal is built so  *)
(* that approx_peak finds its candidates among places at chosen distances; *)
(* each place carries an integrated value and a bandpass pulse of a chosen *)
(* kind.                                                                   *)
(***************************************************************************)
\* most candidates of an input
MaxPeaks == 3

\* distances between consecutive candidates, in samples
Gaps == {2, 3, 10}

\* a candidate's integrated value v and the numerator b of its bandpass pulse
Kinds ==
    {[v |-> 3, b |-> 64], [v |-> 1, b |-> 64], [v |-> 1, b |-> 1],
     [v |-> 1, b |-> 0], [v |-> 0, b |-> 64]}

\* denominator of the bandpass samples: the pulses are 1, 1/64 or 0
BpassDen == 2 ^ 6

\* numerators of the first bandpass samples, the same in samples 0..8
HeadVals == {0, 32}

DetFreqs == {10}

HalfKernel == (KernelWidth - 1) \div 2

GapSeqs == UNION {[1 .. n -> Gaps] : n \in 0 .. (MaxPeaks - 1)}

\* the k-th intended candidate, k = 1 .. Len(gaps) + 1
PeakAt(gaps, k) == HalfKernel + SeqSum(SubSeq(gaps, 1, k - 1))

PeakSet(gaps) == {PeakAt(gaps, k) : k \in 1 .. (Len(gaps) + 1)}

InputLen(gaps) == PeakAt(gaps, Len(gaps) + 1) + HalfKernel + 2

\* the integrated signal: level + 1 in the first HalfKernel samples, then the
\* candidates' values on the ground of level, and from sample 2*HalfKernel on
\* the values that make the smoothed series rise into a chosen place and fall
\* after it, as far as that takes no negative sample
IntegratedInput(gaps, kinds, level) ==
    LET P == PeakSet(gaps)
        step(i) == (IF i \in P THEN 1 ELSE 0) - (IF (i - 1) \in P THEN 1 ELSE 0)
        m[j \in 0 .. (InputLen(gaps) - 1)] ==
            IF j < HalfKernel THEN level + 1
            ELSE IF j < 2 * HalfKernel
                 THEN IF j \in P
                      THEN kinds[CHOOSE k \in DOMAIN kinds : PeakAt(gaps, k) = j].v
                      ELSE level
                 ELSE Max2(0, (IF j - KernelWidth < 0 THEN 0 ELSE m[j - KernelWidth])
                              + step(j - HalfKernel))
    IN  [num |-> [k \in 1 .. InputLen(gaps) |-> m[k - 1]], den |-> 1, nan |-> {}]

\* the bandpass signal: a pulse at every intended candidate
BandpassInput(gaps, kinds, hb) ==
    LET P == PeakSet(gaps)
        b(j) == IF j <= 8 THEN hb
                ELSE IF j \in P
                     THEN kinds[CHOOSE k \in DOMAIN kinds : PeakAt(gaps, k) = j].b
                     ELSE 0
    IN  [num |-> [k \in 1 .. InputLen(gaps) |-> b(k - 1)], den |-> BpassDen,
         nan |-> {}]

\* the state after R_peak_extractor(signal, freq, qrs_dict), lines 510-512; the
\* raw signal has the pulses of the bandpass signal
Init ==
    /\ freq \in DetFreqs
    /\ \E gaps \in GapSeqs :
         \E kinds \in [1 .. (Len(gaps) + 1) -> Kinds] :
           \E hb \in HeadVals :
              /\ Constructed(IntegratedInput(gaps, kinds, 0),
                             BandpassInput(gaps, kinds, hb))
              /\ signal = BandpassInput(gaps, kinds, hb).num
    /\ pc = "approx_peak"
    /\ error = ""
    /\ OneRun(1)
    /\ max_val = -1
    /\ bpass = None /\ der = None /\ sqr = None /\ mwin = None

Next ==
    \/ ApproxPeakStep
    \/ ProbablePeak
    \/ AdjustRR
    \/ Searchback
    \/ FindTWave
    \/ AdjustThresholds
    \/ UpdateThresholds
    \/ EcgSearchback

Spec == Init /\ [][Next]_vars

(***************************************************************************)
(* extract_beats, lines 499-538, for one lead                              *)
(***************************************************************************)
\* a plausible slip: the right bound rounded to the nearest sample
RightBoundRounded(n, f) == Round(3 * n * f, 4)

\* left_bound = int(n_seconds4beat*freq*1/4), line 501 (n, f >= 0)
LeftBound(n, f) == (n * f) \div 4

\* right_bound = int(n_seconds4beat*freq*3/4), line 502 (n, f >= 0)
RightBound(n, f) == (3 * n * f) \div 4

\* a plausible slip: only the right end of the window is checked
OutOfBoundsUpperOnly(r, n, f, len) == r + RightBound(n, f) >= len

\* the boundary check of line 529
OutOfBounds(r, n, f, len) ==
    r + RightBound(n, f) >= len \/ r - LeftBound(n, f) < 0

\* a plausible slip: the filter keeps index 0
NonNegative(s) == SelectSeq(s, LAMBDA x : x >= 0)

\* result[result > 0], line 513
RECURSIVE Positive(_)
Positive(s) ==
    IF s = <<>> THEN <<>>
    ELSE IF Head(s) > 0 THEN <<Head(s)>> \o Positive(Tail(s))
         ELSE Positive(Tail(s))

\* result[1:], line 515
DropFirst(s) == IF s = <<>> THEN <<>> ELSE Tail(s)

\* lines 513-515 and 525, after find_r_peaks has returned
FilterPeaks ==
    /\ pc = "returned"
    /\ result' = DropFirst(Positive(result))
    /\ curr_beats' = <<>>
    /\ r_peak_pos' = 0
    /\ pc' = "beats"
    /\ UNCHANGED <<freq, signal, error, cascadeVars, m_win, b_pass, peaks,
                   probable_peaks, r_locs, rrVars, levelVars, thresholdVars,
                   T_wave, ind, n_seconds4beat, run2>>

\* one iteration of the loop over result, lines 527-532, and its end
BeatStep ==
    /\ pc = "beats"
    /\ IF r_peak_pos >= Len(result)
       THEN /\ pc' = "extracted"
            /\ UNCHANGED <<curr_beats, r_peak_pos>>
       ELSE /\ LET r_peak == result[r_peak_pos + 1]
               IN  curr_beats' =
                       IF OutOfBounds(r_peak, n_seconds4beat, freq, Len(signal))
                       THEN curr_beats
                       ELSE Append(curr_beats,
                                   PySlice(signal,
                                           r_peak - LeftBound(n_seconds4beat, freq),
                                           r_peak + RightBound(n_seconds4beat, freq)))
            /\ r_peak_pos' = r_peak_pos + 1
            /\ UNCHANGED pc
    /\ UNCHANGED <<freq, signal, error, cascadeVars, extractorVars,
                   n_seconds4beat, run2>>

(***************************************************************************)
(* extract_beats on given R peaks: the state after find_r_peaks has        *)
(* returned a list for a lead whose sample j has the value j, so that a    *)
(* segment shows the window it was sliced from.  The detector's other      *)
(* fields are not read by extract_beats and are left as constructed.       *)
(***************************************************************************)
\* most R peaks of a returned list
MaxBeats == 4

\* the pairs <<freq, n_seconds4beat>>
BeatParams == {<<10, 0>>, <<10, 1>>, <<10, 2>>, <<250, 1>>}

\* lengths of the lead around the length of one window
BeatLens(n, f) ==
    {len \in {LeftBound(n, f) + RightBound(n, f) + d : d \in {-1, 1, 2}} : len > 0}

Ramp(len) == [k \in 1 .. len |-> k - 1]

\* R peaks at the ends of the lead and at the first and the last place of a
\* window, and their neighbours; -1 is an index ecg_searchback can return
PeakCands(len, n, f) ==
    {b + d : b \in {0, LeftBound(n, f), len - RightBound(n, f) - 1, len - 1},
             d \in {-1, 0, 1}} \cap (-1 .. (len - 1))

\* find_r_peaks returns a non-decreasing list
PeakLists(len, n, f) ==
    {s \in UNION {[1 .. k -> PeakCands(len, n, f)] : k \in 0 .. MaxBeats} :
        \A i \in 1 .. (Len(s) - 1) : s[i] <= s[i + 1]}

InitBeats ==
    /\ \E p \in BeatParams :
         /\ freq = p[1]
         /\ n_seconds4beat = p[2]
         /\ \E len \in BeatLens(p[2], p[1]) :
              /\ signal = Ramp(len)
              /\ result \in PeakLists(len, p[2], p[1])
    /\ pc = "returned"
    /\ error = ""
    /\ max_val = -1
    /\ bpass = None /\ der = None /\ sqr = None /\ mwin = None
    /\ m_win = None /\ b_pass = None
    /\ peaks = <<>> /\ probable_peaks = <<>> /\ r_locs = <<>>
    /\ RR1 = <<>> /\ RR2 = <<>>
    /\ RR_Average1 = 0 /\ RR_Low_Limit = 0 /\ RR_High_Limit = 0
    /\ RR_Missed_Limit = 0
    /\ SPKI = 0 /\ NPKI = 0 /\ SPKF = 0 /\ NPKF = 0
    /\ Threshold_I1 = 0 /\ Threshold_I2 = 0
    /\ Threshold_F1 = 0 /\ Threshold_F2 = 0
    /\ T_wave = FALSE
    /\ ind = 0
    /\ curr_beats = <<>> /\ r_peak_pos = 0
    /\ run2 = None

NextBeats ==
    \/ FilterPeaks
    \/ BeatStep

SpecBeats == InitBeats /\ [][NextBeats]_vars

(***************************************************************************)
(* Two runs of the RR tracker.  The detector runs on a constructed input   *)
(* with NumCands candidates; run2 is the RR tracker of a second run whose  *)
(* candidate list has one distance changed, so that the two lists agree up *)
(* to some position and differ from it on.  The second run calls           *)
(* adjust_rr_interval(ind) for the same ind just before the first does.    *)
(***************************************************************************)
\* candidates of each run
NumCands == 10

\* most distances of a run that differ from its first distance
MaxOdd == 2

\* the distances between consecutive candidates of a run, in samples, are
\* drawn from one of these sets: a fast rhythm, whose two distances never lie
\* between one pair of RR limits, and a slow one, whose distances always do
LagAlphabets == {{2, 3}, {11, 12}}

LagGaps == UNION LagAlphabets

LagGapSeqs ==
    UNION {{g \in [1 .. (NumCands - 1) -> a] :
               Cardinality({k \in DOMAIN g : g[k] # g[1]}) <= MaxOdd} :
           a \in LagAlphabets}

PeaksOf(gaps) == [k \in 1 .. (Len(gaps) + 1) |-> PeakAt(gaps, k)]

\* the other distance of the rhythm x belongs to
OtherGap(x) ==
    CHOOSE y \in LagGaps : y # x /\ \E a \in LagAlphabets : {x, y} \subseteq a

\* every candidate has the integrated value 3 and a bandpass pulse of height 1
LagKinds == [k \in 1 .. NumCands |-> [v |-> 3, b |-> 64]]

\* numerator of the first bandpass samples, 1/2: the values self.b_pass[ind]
\* that feed SPKF and NPKF are positive
LagHead == 2 ^ 5

\* the fields of a run's RR tracker, the run's candidates, and the last ind
\* adjust_rr_interval was called with
Tracker(st, pk, i) ==
    [peaks |-> pk, ind |-> i,
     RR1 |-> st.RR1, RR2 |-> st.RR2, RR_Average1 |-> st.RR_Average1,
     RR_Low_Limit |-> st.RR_Low_Limit, RR_High_Limit |-> st.RR_High_Limit,
     RR_Missed_Limit |-> st.RR_Missed_Limit]

\* the state after R_peak_extractor(signal, freq, qrs_dict) in both runs
InitLag ==
    /\ freq \in DetFreqs
    /\ \E gaps \in LagGapSeqs :
         /\ Constructed(IntegratedInput(gaps, LagKinds, 1),
                        BandpassInput(gaps, LagKinds, LagHead))
         /\ signal = BandpassInput(gaps, LagKinds, LagHead).num
         /\ \E k \in DOMAIN gaps :
              run2 = Tracker(RRState, PeaksOf([gaps EXCEPT ![k] = OtherGap(@)]), 0)
    /\ pc = "approx_peak"
    /\ error = ""
    /\ max_val = -1
    /\ bpass = None /\ der = None /\ sqr = None /\ mwin = None
    /\ n_seconds4beat = 1 /\ curr_beats = <<>> /\ r_peak_pos = 0

\* adjust_rr_interval(ind) of the second run, lines 250-277
SecondRun ==
    /\ pc = "adjust_rr_interval"
    /\ run2 # None
    /\ run2.ind < ind
    /\ ind < Len(run2.peaks)
    /\ run2' = Tracker(AdjustRRInterval(run2, run2.peaks, ind), run2.peaks, ind)
    /\ UNCHANGED <<freq, signal, pc, error, cascadeVars, extractorVars, beatVars>>

\* lines 472-478 of the first run, once the second run has called
\* adjust_rr_interval(ind)
AdjustRRLockstep == run2.ind = ind /\ AdjustRR

NextLag ==
    \/ ApproxPeakStep
    \/ ProbablePeak
    \/ SecondRun
    \/ AdjustRRLockstep
    \/ Searchback
    \/ FindTWave
    \/ AdjustThresholds
    \/ UpdateThresholds
    \/ EcgSearchback

SpecLag == InitLag /\ [][NextLag]_vars

(***************************************************************************)
(* ecg_searchback on given accepted sets: the state of the extractor when  *)
(* the candidate loop has ended, for a short raw signal and any list of    *)
(* accepted indices of it.  The other fields are not read by               *)
(* ecg_searchback and are left as constructed.                             *)
(***************************************************************************)
\* samples of the raw signal
EcgLen == 5

\* most entries of r_locs
MaxLocs == 2

\* r_locs holds sample indices, in the order of acceptance, repeats included
LocLists(len) == UNION {[1 .. k -> 0 .. (len - 1)] : k \in 0 .. MaxLocs}

InitEcg ==
    /\ freq \in DetFreqs
    /\ \E len \in 1 .. EcgLen :
         /\ signal \in SignalsOfLen(len)
         /\ r_locs \in LocLists(len)
    /\ pc = "ecg_searchback"
    /\ error = ""
    /\ max_val = -1
    /\ bpass = None /\ der = None /\ sqr = None /\ mwin = None
    /\ m_win = None /\ b_pass = None
    /\ peaks = <<>> /\ probable_peaks = <<>> /\ result = <<>>
    /\ RR1 = <<>> /\ RR2 = <<>>
    /\ RR_Average1 = 0 /\ RR_Low_Limit = 0 /\ RR_High_Limit = 0
    /\ RR_Missed_Limit = 0
    /\ SPKI = 0 /\ NPKI = 0 /\ SPKF = 0 /\ NPKF = 0
    /\ Threshold_I1 = 0 /\ Threshold_I2 = 0
    /\ Threshold_F1 = 0 /\ Threshold_F2 = 0
    /\ T_wave = FALSE
    /\ ind = 0
    /\ OneRun(1)

NextEcg == EcgSearchback

SpecEcg == InitEcg /\ [][NextEcg]_vars

(***************************************************************************)
(* Claims about the filter cascade (SpecFilter)                            *)
(***************************************************************************)
StageOutputs == {bpass, der, sqr, mwin}

AllZero(x) == \A k \in DOMAIN x : x[k] = 0

\* solve() was left by an exception of one of its stages
StageRaised == pc = "raised" /\ mwin = None

\* C1: for every input signal, also one shorter than the integration window
\* round(0.15*freq), each stage of the cascade completes and returns a signal
\* as long as the input.  (Stated for signals of at least one sample; the
\* empty signal already fails in band_pass_filter, whose max() raises.)
C1_StagesCompleteWithInputLength ==
    Len(signal) > 0
        => /\ ~StageRaised
           /\ \A out \in StageOutputs : out # None => Len(out.num) = Len(signal)

\* C2: on an all-zero input (at least one sample, all of them 0, so that the
\* normalisation divisor is 0) band_pass_filter ends in the error
\* DegenerateSignal and returns no signal obtained by dividing by zero.
C2_AllZeroRaisesDegenerateSignal ==
    (Len(signal) > 0 /\ AllZero(signal) /\ pc # "band_pass_filter")
        => (pc = "raised" /\ error = "DegenerateSignal" /\ bpass = None)

\* C3: for a signal shorter than round(0.5*freq)+2 samples, solve followed by
\* find_r_peaks raises nothing and ends with an empty candidate list and an
\* empty final R-peak list.  (Stated for a valid frequency and at least one
\* sample; the empty signal already fails in band_pass_filter.)
C3_ShortSignalNoErrorNoPeaks ==
    (freq > 0 /\ Len(signal) > 0 /\ Len(signal) < Round(5 * freq, 10) + 2)
        => /\ error = ""
           /\ pc # "raised"
           /\ pc = "returned" => (peaks = <<>> /\ result = <<>>)

\* C8: a non-positive sampling frequency is rejected before any processing:
\* no filter stage ever produces an output for it.
C8_InvalidFrequencyRejected ==
    freq <= 0 => /\ pc \in {"band_pass_filter", "raised"}
                 /\ \A out \in StageOutputs : out = None

Abs(v) == IF v < 0 THEN -v ELSE v

\* C9: when the high-pass output is not identically zero, the divisor
\* max(max(y), -min(y)) is positive and at least the magnitude of every
\* high-pass sample, so every sample band_pass_filter returns is in [-1, 1].
C9_BandPassWithinUnitInterval ==
    (bpass # None /\ ~AllZero(HighPassOf(signal)))
        => /\ max_val > 0
           /\ bpass.den = max_val
           /\ bpass.nan = {}
           /\ \A k \in DOMAIN bpass.num :
                 /\ bpass.num[k] = HighPassOf(signal)[k]
                 /\ Abs(bpass.num[k]) <= bpass.den

\* C9 witness: a returned bandpass signal whose largest magnitude is reached by
\* a negative sample (value -1) and which also has a sample strictly inside
C9_Witness ==
    /\ bpass # None
    /\ max_val > 0
    /\ \E k \in DOMAIN bpass.num : bpass.num[k] = -max_val
    /\ \E k \in DOMAIN bpass.num : bpass.num[k] > 0 /\ bpass.num[k] < max_val
    /\ \A k \in DOMAIN bpass.num : bpass.num[k] < max_val

(***************************************************************************)
(* Claims about the detector (Spec)                                        *)
(***************************************************************************)
\* C4: the list ecg_searchback produces is strictly ascending and holds no
\* index twice, whatever accepted set r_locs it starts from.
C4_EcgSearchbackStrictlyAscending ==
    pc = "returned"
        => \A i \in 1 .. (Len(result) - 1) : result[i] < result[i + 1]

\* C10: in the acceptance step of a candidate that is not flagged as a T-wave
\* and whose integrated value reaches Threshold_I1 (find_t_wave, and
\* adjust_thresholds for the candidates that skip it), the probable peak is
\* appended to r_locs if and only if the bandpass value at the probable peak's
\* sample index exceeds Threshold_F1.
C10_AcceptsIffBandpassValueAboveThreshold ==
    [][(/\ pc \in {"find_t_wave", "adjust_thresholds"}
        /\ pc' = "update_thresholds"
        /\ ~T_wave'
        /\ Val(m_win, PeakVal) >= Threshold_I1)
          => ((r_locs' = Append(r_locs, probable_peaks[ind + 1]))
                 <=> (Val(b_pass, probable_peaks[ind + 1]) > Threshold_F1))]_vars

(***************************************************************************)
(* Claims about extract_beats (SpecBeats)                                  *)
(***************************************************************************)
\* C5: every segment extract_beats returns is the slice of a window
\* [r_peak - left_bound, r_peak + right_bound) of a processed R peak that
\* lies inside [0, len(signal)); a peak whose window leaves the signal on
\* either side contributes no segment.
C5_BeatWindowsInsideSignal ==
    LET lb == LeftBound(n_seconds4beat, freq)
        rb == RightBound(n_seconds4beat, freq)
        Inside(r) == r - lb >= 0 /\ r + rb <= Len(signal)
    IN  pc \in {"beats", "extracted"}
            => /\ \A j \in DOMAIN curr_beats :
                     \E k \in 1 .. r_peak_pos :
                        /\ Inside(result[k])
                        /\ curr_beats[j]
                              = SubSeq(signal, result[k] - lb + 1, result[k] + rb)
               /\ Len(curr_beats)
                     <= Cardinality({k \in 1 .. r_peak_pos : Inside(result[k])})

\* C5 witness: a finished lead with a segment, a peak whose window starts
\* before the signal and a peak whose window ends after it
C5_Witness ==
    /\ pc = "extracted"
    /\ curr_beats # <<>>
    /\ \E k \in DOMAIN result : result[k] - LeftBound(n_seconds4beat, freq) < 0
    /\ \E k \in DOMAIN result :
          result[k] + RightBound(n_seconds4beat, freq) > Len(signal)

BoundsInUse == pc \in {"searchback", "find_t_wave"} /\ run2.ind = ind

\* the candidate lists of the two runs agree on the Python positions 0..last
AgreeUpTo(last) == \A j \in 1 .. (last + 1) : peaks[j] = run2.peaks[j]

SameBounds ==
    /\ RR_Low_Limit = run2.RR_Low_Limit
    /\ RR_High_Limit = run2.RR_High_Limit
    /\ RR_Missed_Limit = run2.RR_Missed_Limit

\* C7 as stated: the RR limits used to evaluate candidate ind depend only on
\* the candidates 0..ind-1: two runs whose candidate lists agree on the
\* positions 0..ind-1 use identical limits for candidate ind.
C7_BoundsDependOnlyOnEarlierCandidates ==
    (BoundsInUse /\ AgreeUpTo(ind - 1)) => SameBounds

\* C7, amended: the RR limits used to evaluate candidate ind depend only on
\* the candidates 0..ind (no candidate after ind is read): two runs whose
\* candidate lists agree on the positions 0..ind use identical limits for
\* candidate ind, whatever the lists hold after ind.
C7_BoundsDependOnlyOnCandidatesUpToInd ==
    (BoundsInUse /\ AgreeUpTo(ind)) => SameBounds

\* C7 witness: candidate ind >= 8 is evaluated with limits taken from a full
\* RR2, by two runs that agree on 0..ind and differ on a later candidate
C7_Witness ==
    /\ BoundsInUse
    /\ ind >= 8
    /\ Len(RR2) > 7
    /\ AgreeUpTo(ind)
    /\ \E j \in DOMAIN peaks : peaks[j] # run2.peaks[j]
    /\ SameBounds

(***************************************************************************)
(* Further claims about the detector (Spec)                                *)
(***************************************************************************)
\* C11: every index searchback appends to r_locs is an absolute sample index
\* of the bandpass signal inside the region it searched, from
\* peak_val - sb_win + 1 - win_150ms to peak_val (sb_win = round(RRn*freq)).
C11_SearchbackAppendsIndexInSearchedRegion ==
    [][(pc = "searchback" /\ r_locs' # r_locs)
          => LET r == r_locs'[Len(r_locs')]
             IN  /\ PeakVal - RRn + 1 - Win150ms(freq) <= r
                 /\ r <= PeakVal]_vars

\* C12: every entry appended to probable_peaks for a candidate is a sample
\* index inside the candidate's own window [max(0, peak_val - win_150ms),
\* min(peak_val + win_150ms, len - 1)) of the bandpass signal, and the bandpass
\* value at that index is the largest of the window.
C12_ProbablePeakInsideOwnWindow ==
    [][(pc = "window" /\ probable_peaks' # probable_peaks)
          => LET p == probable_peaks'[Len(probable_peaks')]
             IN  /\ p \in Win300ms
                 /\ \A j \in Win300ms : At(b_pass.num, j) <= At(b_pass.num, p)]_vars

(***************************************************************************)
(* Claims about ecg_searchback (SpecEcg)                                   *)
(***************************************************************************)
\* C13: for each accepted index r, the index ecg_searchback reports is the
\* smallest sample index attaining the maximum of the raw signal over the
\* window of round(0.2*freq) samples on either side of r, clipped to the
\* signal; so it lies in [0, len(signal)) and within round(0.2*freq) of r.
C13_EcgSearchbackReportsWindowMaximum ==
    pc = "returned"
        => /\ Len(result) = Len(r_locs)
           /\ \A k \in DOMAIN result :
                 LET lo == Max2(0, r_locs[k] - Win200ms(freq))
                     hi == Min2(Len(signal) - 1, r_locs[k] + Win200ms(freq))
                 IN  /\ result[k] \in lo .. hi
                     /\ \A j \in lo .. hi :
                           /\ At(signal, j) <= At(signal, result[k])
                           /\ At(signal, j) = At(signal, result[k])
                                 => result[k] <= j

(***************************************************************************)
(* Claims about searchback and T-wave discrimination (Spec)                *)
(***************************************************************************)
\* the candidate loop of find_r_peaks is running
InLoop ==
    pc \in {"window", "adjust_rr_interval", "searchback", "find_t_wave",
            "adjust_thresholds", "update_thresholds"}

\* C14: find_t_wave is evaluated for a candidate only when searchback has not
\* accepted a peak for it, so a candidate appends at most one index to r_locs:
\* r_locs never holds more entries than candidates have been taken up.
C14_OneAcceptancePerCandidate ==
    InLoop => Len(r_locs) <= (IF pc = "window" THEN ind ELSE ind + 1)

\* the window of searchback's first stage has no integrated sample above
\* Threshold_I1
NoPointAboveI1 ==
    \A j \in (PeakVal - RRn + 1) .. PeakVal : Val(m_win, j) <= Threshold_I1

\* searchback's first stage has found x_max and the window of its second
\* stage has no bandpass sample above Threshold_F1
NoPointAboveF1 ==
    /\ SbXMax # <<>>
    /\ \A j \in SliceIndices(b_pass.num, SbXMax[1] - Win150ms(freq),
                             Min2(Len(b_pass.num) - 1, SbXMax[1])) :
          Val(b_pass, j) <= Threshold_F1

SearchbackChangesNothing == UNCHANGED <<levelVars, thresholdVars, r_locs>>

\* C15 as stated: a searchback call changes none of SPKI, SPKF, NPKI, NPKF,
\* the four thresholds and r_locs when RRn <= RR_Missed_Limit, and likewise
\* when either of its two stages finds no qualifying point.
C15_SearchbackWithoutPointChangesNothing ==
    [][(pc = "searchback"
           /\ (\/ RRn * RRUnit <= RR_Missed_Limit
               \/ NoPointAboveI1
               \/ NoPointAboveF1))
          => SearchbackChangesNothing]_vars

\* C15, amended: a searchback call changes nothing when RRn <= RR_Missed_Limit
\* or its first stage finds no integrated sample above Threshold_I1; when the
\* first stage finds x_max and the second finds no bandpass sample above
\* Threshold_F1, SPKI, Threshold_I1 and Threshold_I2 are updated from
\* m_win[x_max], and SPKF, NPKI, NPKF, Threshold_F1, Threshold_F2 and r_locs
\* are unchanged.
C15_SearchbackFrame ==
    [][pc = "searchback"
          => /\ (RRn * RRUnit <= RR_Missed_Limit \/ NoPointAboveI1)
                   => SearchbackChangesNothing
             /\ (RRn * RRUnit > RR_Missed_Limit /\ NoPointAboveF1)
                   => /\ UNCHANGED <<SPKF, NPKI, NPKF, Threshold_F1,
                                     Threshold_F2, r_locs>>
                      /\ SPKI' = Ema4(Val(m_win, SbXMax[1]), SPKI)
                      /\ Threshold_I1' = Threshold1(SPKI', NPKI)
                      /\ Threshold_I2' = Threshold2(Threshold_I1')]_vars

\* C15 witness: searchback is about to run with RRn > RR_Missed_Limit, a
\* qualifying integrated sample and no qualifying bandpass sample
C15_Witness ==
    /\ pc = "searchback"
    /\ RRn * RRUnit > RR_Missed_Limit
    /\ ~NoPointAboveI1
    /\ NoPointAboveF1
    /\ Val(m_win, SbXMax[1]) # SPKI

(***************************************************************************)
(* Further claims about extract_beats (SpecBeats)                          *)
(***************************************************************************)
\* the window of R peak r, and the segment sliced from it
WindowOf(r) ==
    SubSeq(signal, r - (n_seconds4beat * freq) \div 4 + 1,
           r + (3 * n_seconds4beat * freq) \div 4)

\* the window of R peak r lies inside [0, len(signal))
WindowFits(r) ==
    /\ r - (n_seconds4beat * freq) \div 4 >= 0
    /\ r + (3 * n_seconds4beat * freq) \div 4 <= Len(signal)

\* the window of R peak r ends before the last sample of the signal
WindowFitsBeforeLast(r) ==
    /\ r - (n_seconds4beat * freq) \div 4 >= 0
    /\ r + (3 * n_seconds4beat * freq) \div 4 < Len(signal)

\* C16 as stated: extract_beats drops exactly the first of the final R-peak
\* indices and produces one segment for every remaining index whose window
\* fits inside the signal, in the same order; no other index is dropped.
C16_DropsFirstAndMisfitsOnly ==
    [][/\ pc = "returned"
             => result' = (IF result = <<>> THEN <<>> ELSE Tail(result))
       /\ (pc = "beats" /\ r_peak_pos < Len(result))
             => curr_beats' =
                   (IF WindowFits(result[r_peak_pos + 1])
                    THEN Append(curr_beats, WindowOf(result[r_peak_pos + 1]))
                    ELSE curr_beats)]_vars

\* C16, amended: extract_beats first removes every index <= 0, then drops the
\* first of the indices left, and produces one segment, in the same order,
\* for every remaining index r with r - left_bound >= 0 and
\* r + right_bound < len(signal); an index whose window ends exactly at the end
\* of the signal is dropped as well.
C16_DropsNonPositiveFirstAndMisfits ==
    [][/\ pc = "returned"
             => LET kept == SelectSeq(result, LAMBDA x : x > 0)
                IN  result' = (IF kept = <<>> THEN <<>> ELSE Tail(kept))
       /\ (pc = "beats" /\ r_peak_pos < Len(result))
             => curr_beats' =
                   (IF WindowFitsBeforeLast(result[r_peak_pos + 1])
                    THEN Append(curr_beats, WindowOf(result[r_peak_pos + 1]))
                    ELSE curr_beats)]_vars

\* C16 witness: a finished lead with a segment and with a remaining R peak
\* whose window ends exactly at the end of the signal and gave no segment
C16_Witness ==
    /\ pc = "extracted"
    /\ curr_beats # <<>>
    /\ \E k \in DOMAIN result :
          /\ WindowFits(result[k])
          /\ ~WindowFitsBeforeLast(result[k])
          /\ \A j \in DOMAIN curr_beats : curr_beats[j] # WindowOf(result[k])


\* ---------------------------------------------------------------------
\* Claims about the RR tracker (SpecLag)
\* ---------------------------------------------------------------------

\* a call of adjust_rr_interval(ind) has just returned in the first run
AdjustRRReturns == pc = "adjust_rr_interval" /\ pc' = "searchback"

\* the intervals of the call's RR1 that lie strictly between the limits the
\* call started with, in the order of RR1; none when ind < 8
InBoundsIntervals ==
    IF ind >= 8
    THEN SelectSeq(RR1', LAMBDA x : RR_Low_Limit < x * RRUnit
                                    /\ x * RRUnit < RR_High_Limit)
    ELSE <<>>

\* the last n entries of a list, all of it when it is shorter
LastEntries(x, n) == SubSeq(x, Max2(1, Len(x) - n + 1), Len(x))

\* C17: after every call of adjust_rr_interval RR2 holds at most 8 entries,
\* and it is the last 8 (or fewer) of its old entries followed by the
\* in-bounds intervals of the call in insertion order, so each entry removed
\* was the oldest one
C17_RR2KeepsLastEightInBoundsIntervals ==
    [][AdjustRRReturns =>
         /\ Len(RR2') <= 8
         /\ RR2' = LastEntries(RR2 \o InBoundsIntervals, 8)]_vars

\* a call with ind = 9 has evicted eight entries from a full RR2 that holds
\* two different interval lengths
C17_Witness ==
    /\ pc = "searchback" /\ ind = 9
    /\ Len(RR2) = 8 /\ RR2 = RR1
    /\ \E i \in 1 .. 7 : RR2[i] # RR2[i + 1]

\* the three limits are 0.92, 1.16 and 1.66 times the average a
LimitsFrom(a) ==
    /\ RR_Low_Limit' = 92 * (a \div 100)
    /\ RR_High_Limit' = 116 * (a \div 100)
    /\ RR_Missed_Limit' = 166 * (a \div 100)

\* the values RR_Average2 can have at line 274: RR_Average1, or the mean of
\* RR2 after an eviction
Average2Values ==
    {RR_Average1'} \cup (IF RR2' = <<>> THEN {} ELSE {Mean(RR2')})

\* C18: a call adjust_rr_interval(ind) with ind >= 8 that leaves fewer than 8
\* entries in RR2 leaves the three limits unchanged; a call with ind < 8 or
\* with 8 entries in RR2 sets them to 0.92, 1.16 and 1.66 times one average
C18_LimitsFollowFullRR2OrEarlyInd ==
    [][AdjustRRReturns =>
         IF ind >= 8 /\ Len(RR2') < 8
         THEN UNCHANGED <<RR_Low_Limit, RR_High_Limit, RR_Missed_Limit>>
         ELSE \E a \in Average2Values : LimitsFrom(a)]_vars

\* a call with ind >= 8 has left fewer than 8 entries in RR2 and limits that
\* an update would have changed
C18_Witness ==
    /\ pc = "searchback" /\ ind >= 8
    /\ 0 < Len(RR2) /\ Len(RR2) < 8
    /\ RR_Low_Limit # 92 * (RR_Average1 \div 100)

\* ---------------------------------------------------------------------
\* Claims about find_t_wave (Spec)
\* ---------------------------------------------------------------------

\* this call of find_t_wave flags the current candidate as a T wave
FlagsTWave == pc = "find_t_wave" /\ ~T_wave /\ T_wave'

\* C19: a call of find_t_wave that flags the candidate as a T wave (short RR
\* interval, slope below half the previous slope) updates NPKI only: SPKI,
\* SPKF and NPKF keep their values and nothing is appended to r_locs
C19_TWaveUpdatesNPKIOnly ==
    [][FlagsTWave =>
         /\ ShortRR
         /\ 2 * SetMax(SlopeDiffs(PeakVal)) < SetMax(SlopeDiffs(peaks[ind]))
         /\ NPKI' = Ema8(Val(m_win, PeakVal), NPKI)
         /\ UNCHANGED <<SPKI, SPKF, NPKF, r_locs>>]_vars

\* find_t_wave has just flagged a candidate whose value moved NPKI
C19_Witness ==
    /\ pc = "update_thresholds" /\ T_wave
    /\ ind > 0 /\ Val(m_win, PeakVal) > 0 /\ NPKI > 0

\* ---------------------------------------------------------------------
\* Claims about the probable peak list (Spec)
\* ---------------------------------------------------------------------

\* the next step reads self.probable_peaks[ind], at line 366 or line 395
ReadsProbablePeak ==
    /\ InLoop
    /\ Val(m_win, PeakVal) >= Threshold_I1
    /\ \/ pc = "adjust_thresholds"
       \/ /\ pc = "find_t_wave" /\ ~T_wave
          /\ ShortRR => /\ SlopeDiffs(PeakVal) # {}
                        /\ SlopeDiffs(peaks[ind]) # {}
                        /\ ~IsTWave

\* C20: whenever probable_peaks[ind] is read to decide candidate ind, the
\* list has an entry at position ind and it is the one computed from the
\* window of candidate ind; no run reads the list past its end
C20_ProbablePeakReadHasOwnEntry ==
    ReadsProbablePeak =>
        /\ ind < Len(probable_peaks)
        /\ WindowMax # 0
        /\ probable_peaks[ind + 1] = FirstIndexOf(b_pass.num, WindowMax)

\* ---------------------------------------------------------------------
\* Claims about the halving on an irregular rhythm (SpecLag)
\* ---------------------------------------------------------------------

\* C21: for every candidate 1 <= ind < 8 the halving of Threshold_I1 and
\* Threshold_F1 never fires: adjust_rr_interval has just set the limits from
\* the positive RR_Average1, so RR_Low_Limit <= RR_Average1 <=
\* RR_Missed_Limit holds at the test of line 476 and both thresholds keep
\* their values; a halving occurs from the ninth candidate on only
C21_NoHalvingBeforeNinthCandidate ==
    [][AdjustRRReturns =>
         /\ (1 <= ind /\ ind < 8) =>
               /\ RR_Average1' > 0
               /\ RR_Low_Limit' <= RR_Average1'
               /\ RR_Average1' <= RR_Missed_Limit'
               /\ ~Irregular(RRState')
               /\ UNCHANGED <<Threshold_I1, Threshold_F1>>
         /\ (Threshold_I1' # Threshold_I1 \/ Threshold_F1' # Threshold_F1)
               => ind >= 8]_vars

\* the test of line 476 has just passed for a candidate before the ninth,
\* with thresholds a halving would have changed and limits strictly around
\* the average
C21_Witness ==
    /\ pc = "searchback" /\ 1 <= ind /\ ind < 8
    /\ Threshold_I1 > 1 /\ Threshold_F1 > 1
    /\ RR_Low_Limit < RR_Average1 /\ RR_Average1 < RR_Missed_Limit
=============================================================================
